---- MODULE Spec2Model ----
(***************************************************************************)
(* Liquidator bot (src/liquidator/liquidator.js).                          *)
(*                                                                         *)
(* One Liquidator object, shared by the invocations of its two public      *)
(* async operations, queryAndLiquidate and queryAndWithdrawRewards.  An    *)
(* invocation runs synchronously from one `await` to the next; every       *)
(* action below is one such segment: the resumption of an invocation after *)
(* the remote call it was suspended on returned or failed, up to the next  *)
(* `await` (or to the end of the operation).                               *)
(*                                                                         *)
(* Spec          one invocation of each operation; the two may overlap:    *)
(*               their segments interleave at the awaits.                  *)
(* SpecRepeat    calls of the two operations made one after another, each  *)
(*               awaited before the next.                                  *)
(* SpecWithdraw  queryAndWithdrawRewards alone, over a cache whose         *)
(*               liquidations are fixed.                                   *)
(* SpecConfig    the constructor, over the `config` arguments.             *)
(***************************************************************************)
EXTENDS Integers, Sequences, FiniteSets, TLC

\* ----------------------------------------------------------------- bounds
\* Sponsors with an open position in the cache.
MaxPositions == 2
\* Liquidations the cache tracks.
MaxLiquidations == 2
\* Calls of the two operations a caller makes one after another.
MaxCalls == 3

\* ------------------------------------------------------- program constants
\* toWei("1"): 10^18 in the source, modelled at 10^2 so that the products
\* of two scaled integers stay inside TLC's integers.
SCALE == 100
\* defaultConfig.crThreshold.value (0.02), as toWei gives it at SCALE.
crThresholdScaled == 2
\* defaultConfig.liquidationDeadline.value
liquidationDeadline == 300
\* defaultConfig.liquidationMinPrice.value: toWei("0")
liquidationMinPrice == 0
\* defaultConfig.txnGasLimit.value
txnGasLimit == 9000000

\* null / undefined where a number is expected (this.empCRRatio = null).
NULL == -1

\* The two public operations; one invocation of each is followed, and the two
\* may be suspended at the same time.
Ops == {"liquidate", "withdraw"}

Procs == Ops

\* this.account and another liquidator's account
account == "operator"
Accounts == {account, "other"}

\* What empContract.methods.collateralRequirement().call() returns: the
\* contract's collateral requirement, 1.2 at SCALE.
collateralRequirement == 120

\* What priceFeed.getCurrentPrice() may return: nothing, or a BN (zero, 1.00
\* and 1.01 at SCALE).
FeedPrices == {NULL, 0, 100, 101}

Range(q) == {q[i] : i \in 1..Len(q)}

\* The subsequence of q whose elements are in S (Array.prototype.filter).
Filter(q, S) == SelectSeq(q, LAMBDA x : x \in S)

\* Position snapshots of the cache, in the cache's order: sponsor and
\* outstanding tokens.
cachePositions == [n \in 1..MaxPositions |-> [sponsor |-> n, numTokens |-> 10 * n]]

\* What getUnderCollateralizedPositions may return: the cache's positions
\* that are under the price boundary, in the cache's order.
PositionSeqs == {Filter(cachePositions, S) : S \in SUBSET Range(cachePositions)}

\* empClient.getUnderCollateralizedPositions(boundary): no position has
\* less than no collateral, so none is under a boundary of zero.
ScanResults(boundary) == IF boundary = 0 THEN {<<>>} ELSE PositionSeqs

\* Liquidation snapshots: id, sponsor, liquidator.  The cache holds, for every
\* liquidation id, who liquidated and whether it is expired, disputed or
\* neither.
Liquidation(n, a) == [id |-> n, sponsor |-> n, liquidator |-> a]

CacheLiquidations ==
  [1..MaxLiquidations -> [liquidator : Accounts, status : {"expired", "disputed", "preDispute"}]]

\* The snapshots the cache may hold when the liquidations of ids
\* 1..Len(known) are known to be known[1], known[2], ...
Snapshots(known) ==
  {c \in CacheLiquidations : \A n \in 1..Len(known) : c[n] = known[n]}

\* empClient.getExpiredLiquidations() / getDisputedLiquidations() of cache c.
LiquidationsWith(c, status) ==
  LET all == [n \in 1..MaxLiquidations |-> n]
      ids == SelectSeq(all, LAMBDA n : c[n].status = status)
  IN  [k \in 1..Len(ids) |-> Liquidation(ids[k], c[ids[k]].liquidator)]

\* ---------------------------------------------------------- configuration
\* The keys of defaultConfig and their default values; crThreshold and
\* liquidationMinPrice at SCALE.
ConfigKeys == {"crThreshold", "liquidationDeadline", "liquidationMinPrice", "txnGasLimit"}

defaultConfig ==
  [ crThreshold |-> crThresholdScaled,
    liquidationDeadline |-> liquidationDeadline,
    liquidationMinPrice |-> liquidationMinPrice,
    txnGasLimit |-> txnGasLimit ]

\* As isValid, with the lower end of txnGasLimit exclusive.
isValid_GasLimitAbove(key, x) ==
  CASE key = "crThreshold" -> x < SCALE /\ x >= 0
    [] key = "liquidationDeadline" -> x >= 0
    [] key = "liquidationMinPrice" -> x >= 0
    [] key = "txnGasLimit" -> x > 6000000 /\ x < 15000000

\* defaultConfig[key].isValid(x)
isValid(key, x) ==
  CASE key = "crThreshold" -> x < SCALE /\ x >= 0
    [] key = "liquidationDeadline" -> x >= 0
    [] key = "liquidationMinPrice" -> x >= 0
    [] key = "txnGasLimit" -> x >= 6000000 /\ x < 15000000

\* The values a caller may give a key of the `config` argument: around the
\* ends of what the key's predicate accepts.
OverrideValues ==
  [ crThreshold |-> {-1, 0, 99, SCALE},
    liquidationDeadline |-> {-1, 0, 600},
    liquidationMinPrice |-> {-1, 0, 50},
    txnGasLimit |-> {5000000, 5999999, 6000000, 14999999, 15000000} ]

\* The `config` arguments: any subset of the keys, each with one of its values.
Overrides ==
  LET all == UNION {OverrideValues[k] : k \in ConfigKeys}
  IN  {o \in UNION {[K -> all] : K \in SUBSET ConfigKeys} :
         \A k \in DOMAIN o : o[k] \in OverrideValues[k]}

\* `config` without a key.
NoOverride == [k \in {} |-> 0]

\* The Liquidator before its constructor has run.
NotConstructed ==
  [state |-> "new", override |-> NoOverride, rejected |-> {}, props |-> NoOverride]

\* createObjectFromDefaultProps(config, defaultConfig) and Object.assign: for
\* every key of the override its predicate must accept the value, or the
\* constructor throws; the keys the override lacks take their defaults.
createObjectFromDefaultProps(overrideProps) ==
  LET rejected == {k \in DOMAIN overrideProps : ~isValid(k, overrideProps[k])} IN
  IF rejected # {}
  THEN [state |-> "ConfigInvalid", override |-> overrideProps,
        rejected |-> rejected, props |-> NoOverride]
  ELSE [state |-> "constructed", override |-> overrideProps, rejected |-> {},
        props |-> [k \in ConfigKeys |->
                     IF k \in DOMAIN overrideProps
                     THEN overrideProps[k]
                     ELSE defaultConfig[k]]]

\* ------------------------------------------------------------ fixed point
\* web3.utils.fromWei of a BN: the decimal string of n / SCALE, kept as its
\* whole part and its fractional digits.
fromWei(n) == [whole |-> n \div SCALE, frac |-> n % SCALE]

\* The decimal strings web3.utils.toBN accepts: it throws on a string with a
\* decimal point.
IsIntegerString(d) == d.frac = 0

\* web3.utils.toBN of a decimal string it accepts.
toBN(d) == d.whole

\* ------------------------------------------------- one invocation's state
\* pc: the await the invocation is suspended on, or how it ended.
\*   "idle"      not started
\*   "updCache"  update: await this.empClient.update()
\*   "updGas"    update: await this.gasEstimator.update()
\*   "updPrice"  update: await this.priceFeed.update()
\*   "fetchCR"   update: await ...collateralRequirement().call()
\*   "sim"       await liquidation.call / withdraw.call
\*   "send"      await liquidation.send / withdraw.send
\*   "finalUpd"  await this.empClient.update() after the loop
\*   "done"      the operation returned
\*   "threw"     the operation's promise rejected; exc names the statement
\*               the exception came from
\* items, idx: the sequence the loop iterates and the item it is at.
\* trail[i]: the states item i has gone through; simCalls, sendCalls: the
\* items a call / a send was issued for, in order; proposed: the
\* price bound of the createLiquidation transactions built, in order, and
\* whether the deadline moved on; inFlight: the remote
\* calls issued and not yet settled; log: the records given to the logger;
\* scans: queries of the cache's positions or liquidations; loopRefreshes:
\* empClient.update() issued after the loop; price: what getCurrentPrice()
\* returned to the pass; refreshed: the collaborators whose update() has
\* resolved, in order; call: which call of the operation the invocation is.
NoProposal == [method |-> "none"]

IdlePass ==
  [ pc |-> "idle", op |-> "none", call |-> 0, exc |-> "none", price |-> NULL,
    scaledPrice |-> fromWei(0), maxCollateralPerToken |-> NULL,
    items |-> <<>>, idx |-> 0, proposal |-> NoProposal,
    trail |-> <<>>, simCalls |-> <<>>, sendCalls |-> <<>>,
    refreshed |-> <<>>, proposed |-> <<>>, inFlight |-> {}, log |-> <<>>,
    scans |-> 0,
    loopRefreshes |-> 0 ]

Last(q) == q[Len(q)]

\* The state item i of the pass is in.
ItemState(s, i) == Last(s.trail[i])

Terminal == {"SimulationFailed", "SubmissionFailed", "Confirmed"}

\* this.logger.<sev>({at: "Liquidator", message: msg, ...})
Log(s, sev, msg) ==
  [s EXCEPT !.log = Append(@, [sev |-> sev, msg |-> msg, item |-> s.idx])]

\* An exception nothing in the operation catches: the async function's
\* promise rejects and the rest of the operation does not run.
Throw(s, from) == [s EXCEPT !.pc = "threw", !.exc = from]

\* `return`, or the end of the operation.
Return(s) == [s EXCEPT !.pc = "done"]

SetItem(s, state) == [s EXCEPT !.trail[s.idx] = Append(@, state)]

\* The remote call the invocation awaited has settled.
Landed(s, kind) == [s EXCEPT !.inFlight = @ \ {<<kind, s.idx>>}]

\* What the environment decides during one synchronous segment: whether
\* building the transaction object succeeds, whether
\* gasEstimator.getCurrentFastPrice() returns, whether the simulated result
\* carries rawValue, whether the receipt carries the expected event.
Envs ==
  [buildOk : BOOLEAN, gasOk : BOOLEAN, resultOk : BOOLEAN, receiptOk : BOOLEAN]

\* The segments that only build a transaction object, and those that only
\* read the gas price and the simulated result.
BuildEnvs == {e \in Envs : e.gasOk /\ e.resultOk /\ e.receiptOk}
ReadEnvs == {e \in Envs : e.buildOk /\ e.receiptOk}
ReceiptEnvs == {e \in Envs : e.gasOk /\ e.resultOk}

\* As createLiquidation, with the boundary price itself as the maximum
\* collateral per token.
createLiquidation_WithoutRatio(s, position, currentBlockTime) ==
  [ method |-> "createLiquidation",
    sponsor |-> position.sponsor,
    minCollateralPerToken |-> liquidationMinPrice,
    maxCollateralPerToken |-> toBN(s.scaledPrice),
    maxTokensToLiquidate |-> position.numTokens,
    deadline |-> currentBlockTime + liquidationDeadline ]

\* The transaction object of one iteration.
createLiquidation(s, position, currentBlockTime) ==
  [ method |-> "createLiquidation",
    sponsor |-> position.sponsor,
    minCollateralPerToken |-> liquidationMinPrice,
    maxCollateralPerToken |-> s.maxCollateralPerToken,
    maxTokensToLiquidate |-> position.numTokens,
    deadline |-> currentBlockTime + liquidationDeadline ]

withdrawLiquidation(liquidation) ==
  [ method |-> "withdrawLiquidation",
    id |-> liquidation.id,
    sponsor |-> liquidation.sponsor ]

\* What the pass keeps of a createLiquidation transaction it built: the
\* price bound, and whether the deadline is later than that of the
\* transaction built before it (previous).
Terms(liquidation, previous) ==
  [ maxCollateralPerToken |-> liquidation.maxCollateralPerToken,
    later |-> previous # NoProposal /\ liquidation.deadline > previous.deadline ]

\* `await <proposal>.call({from: this.account})` is issued for item s.idx.
IssueCall(s) ==
  [SetItem(s, "Simulating") EXCEPT
     !.pc = "sim",
     !.simCalls = Append(@, s.idx),
     !.inFlight = @ \cup {<<"call", s.idx>>}]

\* `await <proposal>.send(txnConfig)` is issued for item s.idx.
IssueSend(s) ==
  [SetItem(s, "Submitting") EXCEPT
     !.pc = "send",
     !.sendCalls = Append(@, s.idx),
     !.inFlight = @ \cup {<<"send", s.idx>>}]

\* As BeginItem, with the simulations of item i and of every later item issued
\* at once instead of one per iteration.
BeginItem_AllAtOnce(s, i, now, env) ==
  [s EXCEPT
     !.idx = i,
     !.pc = "sim",
     !.trail = [k \in 1..Len(s.items) |->
                  IF k >= i THEN Append(s.trail[k], "Simulating") ELSE s.trail[k]],
     !.simCalls = @ \o [k \in 1..(Len(s.items) - i + 1) |-> i + k - 1],
     !.inFlight = @ \cup {<<"call", k>> : k \in i..Len(s.items)}]

\* As BeginItem, with getLastUpdateTime() read for the first position of the
\* loop and kept for the later ones.
BeginItem_TimeReadOnce(s, i, now, env) ==
  LET s1 == [s EXCEPT !.idx = i]
      currentBlockTime == IF s.proposal = NoProposal
                          THEN now
                          ELSE s.proposal.deadline - liquidationDeadline
  IN
  IF ~env.buildOk
  THEN Throw(s1, "build")
  ELSE IF s.op = "liquidate"
  THEN LET liquidation == createLiquidation(s, s.items[i], currentBlockTime) IN
       IssueCall([s1 EXCEPT
                    !.proposal = liquidation,
                    !.proposed = Append(@, Terms(liquidation, s.proposal))])
  ELSE IssueCall([s1 EXCEPT !.proposal = withdrawLiquidation(s.items[i])])

\* The head of the iteration for item i, up to the await of the simulation.
\* now is this.empClient.getLastUpdateTime() at that moment.
BeginItem(s, i, now, env) ==
  LET s1 == [s EXCEPT !.idx = i] IN
  IF ~env.buildOk
  THEN Throw(s1, "build")
  ELSE IF s.op = "liquidate"
  THEN LET liquidation == createLiquidation(s, s.items[i], now) IN
       IssueCall([s1 EXCEPT
                    !.proposal = liquidation,
                    !.proposed = Append(@, Terms(liquidation, s.proposal))])
  ELSE IssueCall([s1 EXCEPT !.proposal = withdrawLiquidation(s.items[i])])

\* As LeaveLoop, without the refresh of the cache.
LeaveLoop_NoRefresh(s) == [s EXCEPT !.pc = "done", !.proposal = NoProposal]

\* The loop is exhausted: await this.empClient.update().
LeaveLoop(s) ==
  [s EXCEPT !.pc = "finalUpd", !.proposal = NoProposal, !.loopRefreshes = @ + 1]

\* `continue`, or the end of the loop body: the next item, if any.
NextItem(s, now, env) ==
  IF s.idx < Len(s.items)
  THEN BeginItem(s, s.idx + 1, now, env)
  ELSE LeaveLoop(s)

\* As LogSimulateFailed, at error severity on both paths.
LogSimulateFailed_AlwaysError(s) ==
  IF s.op = "liquidate"
  THEN Log(s, "error", "Cannot liquidate position")
  ELSE Log(s, "error", "No rewards to withdraw")

\* The record the catch block of the simulation logs.
LogSimulateFailed(s) ==
  IF s.op = "liquidate"
  THEN Log(s, "error", "Cannot liquidate position")
  ELSE Log(s, "debug", "No rewards to withdraw")

\* As SimulateFailed, with `break` in place of `continue`.
SimulateFailed_Break(s, now, env) ==
  LeaveLoop(LogSimulateFailed(SetItem(s, "SimulationFailed")))

\* As SimulateFailed, with the catch block falling through to the send.
SimulateFailed_SendAnyway(s, now, env) ==
  IssueSend(LogSimulateFailed(SetItem(s, "SimulationFailed")))

\* The catch block of the simulation: the record, then `continue`.
SimulateFailed(s, now, env) ==
  NextItem(LogSimulateFailed(SetItem(s, "SimulationFailed")), now, env)

\* As SendFailed's record, with the catch block logging nothing.
LogSendFailed_Silent(s) == s

\* The simulation returned: txnConfig, the debug record, and the send.
SimulateSucceeded(s, env) ==
  IF ~env.gasOk
  THEN Throw(s, "gasPrice")
  ELSE IF s.op = "withdraw" /\ ~env.resultOk
  THEN Throw(s, "result")
  ELSE IF s.op = "liquidate"
  THEN IssueSend(Log(s, "debug", "Liquidating position"))
  ELSE IssueSend(Log(s, "debug", "Withdrawing liquidation"))

\* The record the catch block of the send logs.
LogSendFailed(s) ==
  IF s.op = "liquidate"
  THEN Log(s, "error", "Failed to liquidate position")
  ELSE Log(s, "error", "Failed to withdraw liquidation rewards")

\* As SendFailed, with the catch block sending the transaction again.
SendFailed_Retry(s, now, env) ==
  IssueSend(LogSendFailed(SetItem(s, "SubmissionFailed")))

\* The catch block of the send: the record, then `continue`.
SendFailed(s, now, env) ==
  NextItem(LogSendFailed(SetItem(s, "SubmissionFailed")), now, env)

\* The record of a success.
LogSuccess(s) ==
  IF s.op = "liquidate"
  THEN Log(s, "info", "Position has been liquidated")
  ELSE Log(s, "info", "Liquidation withdrawn")

\* The send returned a receipt: logResult reads the event's fields, the info
\* record reports the success, and the loop goes on.
SendSucceeded(s, now, env) ==
  IF ~env.receiptOk
  THEN Throw(s, "receipt")
  ELSE NextItem(LogSuccess(SetItem(s, "Confirmed")), now, env)

\* The records that report the outcome of one item.
OutcomeMsgs ==
  { "Cannot liquidate position", "No rewards to withdraw",
    "Failed to liquidate position", "Failed to withdraw liquidation rewards",
    "Position has been liquidated", "Liquidation withdrawn" }

\* ------------------------------------------------------------- the passes
\* The loop over a non-empty scan result starts.
EnterLoop(s, items, now, env) ==
  BeginItem([s EXCEPT !.items = items,
                      !.trail = [i \in 1..Len(items) |-> <<"Scanned">>]],
            1, now, env)

\* price is absent: the warning, and the pass is over.
PriceUnavailable(s) ==
  Return(Log(s, "warn", "Cannot liquidate: price feed returned invalid value"))

\* As NoPositions, returning without the record.
NoPositions_Silent(s) == Return(s)

\* The scan returned no position: the debug record, and the pass is over.
NoPositions(s) == Return(Log(s, "debug", "No undercollateralized position"))

\* The two debug records before the scan.
LogThreshold(s) ==
  Log(Log(s, "debug", "Scaling down collateral threshold for liquidations"),
      "debug", "Checking for under collateralized positions")

\* queryAndLiquidate after `await this.update()`, up to its first await or
\* its return.  cr is this.empCRRatio, price what getCurrentPrice() returns,
\* positions what getUnderCollateralizedPositions(scaledPrice) returns.
LiquidateBody(s, cr, price, positions, now, env) ==
  IF price = NULL
  THEN PriceUnavailable(s)
  ELSE
    LET scaledPrice == fromWei(price * (SCALE - crThresholdScaled)) IN
    IF ~IsIntegerString(scaledPrice)
    THEN Throw([s EXCEPT !.price = price, !.scaledPrice = scaledPrice], "toBN")
    ELSE
      LET maxCollateralPerToken == (toBN(scaledPrice) * cr) \div SCALE
          s1 == LogThreshold([s EXCEPT
                  !.price = price,
                  !.scaledPrice = scaledPrice,
                  !.maxCollateralPerToken = maxCollateralPerToken])
          s2 == [s1 EXCEPT !.scans = @ + 1]
      IN  IF Len(positions) = 0
          THEN NoPositions(s2)
          ELSE EnterLoop(s2, positions, now, env)

\* No liquidation to withdraw from: the debug record, and the pass is over.
NoWithdrawable(s) == Return(Log(s, "debug", "No withdrawable liquidations"))

\* As WithdrawBody, without the filter on the liquidator.
WithdrawBody_Unfiltered(s, expiredLiquidations, disputedLiquidations, now, env) ==
  LET potentialWithdrawableLiquidations ==
        expiredLiquidations \o disputedLiquidations
      s1 == [s EXCEPT !.scans = @ + 1]
  IN  IF Len(potentialWithdrawableLiquidations) = 0
      THEN Return(Log(s1, "debug", "No withdrawable liquidations"))
      ELSE BeginItem([s1 EXCEPT
                        !.items = potentialWithdrawableLiquidations,
                        !.trail = [i \in 1..Len(potentialWithdrawableLiquidations) |->
                                     <<"Scanned">>]],
                     1, now, env)

\* queryAndWithdrawRewards after `await this.update()`, up to its first await
\* or its return.
WithdrawBody(s, expiredLiquidations, disputedLiquidations, now, env) ==
  LET potentialWithdrawableLiquidations ==
        SelectSeq(expiredLiquidations \o disputedLiquidations,
                  LAMBDA liquidation : liquidation.liquidator = account)
      s1 == [s EXCEPT !.scans = @ + 1]
  IN  IF Len(potentialWithdrawableLiquidations) = 0
      THEN NoWithdrawable(s1)
      ELSE EnterLoop(s1, potentialWithdrawableLiquidations, now, env)

\* Every way the operation can continue once update() has resolved; caches
\* are the liquidation snapshots the cache may hold.
AfterUpdate(s, cr, now, caches) ==
  IF s.op = "liquidate"
  THEN UNION {{LiquidateBody(s, cr, price, positions, now, env) :
                 positions \in ScanResults(price), env \in BuildEnvs} :
              price \in FeedPrices}
  ELSE {WithdrawBody(s, LiquidationsWith(c, "expired"),
                      LiquidationsWith(c, "disputed"), now, env) :
          c \in caches, env \in BuildEnvs}

\* As Invoke, with the new invocation taking up the locals of the last one.
Invoke_Resume(last, p) ==
  [last EXCEPT !.op = p, !.pc = "updCache", !.call = last.call + 1, !.exc = "none"]

\* A call of operation p, after last.call earlier ones: a new invocation,
\* with locals of its own, up to update()'s first await.
Invoke(last, p) ==
  LET s == [IdlePass EXCEPT !.op = p, !.pc = "updCache", !.call = last.call + 1]
  IN  IF p = "withdraw"
      THEN Log(s, "debug", "Checking for expired and disputed liquidations to withdraw rewards from")
      ELSE s

\* A collaborator's update() has resolved.
Refreshed(s, step) == [s EXCEPT !.refreshed = Append(@, step)]

\* As IssueFetch, with the operation going on, to an empty scan, without the
\* ratio.
IssueFetch_NoAwait(s) ==
  LET env == [buildOk |-> TRUE, gasOk |-> TRUE, resultOk |-> TRUE, receiptOk |-> TRUE]
  IN  IF s.op = "liquidate"
      THEN LiquidateBody(s, NULL, SCALE, <<>>, 0, env)
      ELSE WithdrawBody(s, <<>>, <<>>, 0, env)

\* update() found this.empCRRatio null: await the contract read.
IssueFetch(s) == [s EXCEPT !.pc = "fetchCR"]

\* ------------------------------------------------------------------ state
VARIABLES
  config,       \* the constructor's outcome and the fields it assigned
  liquidationsCache,  \* what is fixed of the liquidations empClient holds
  empCRRatio,   \* this.empCRRatio: NULL or the cached collateral requirement
  cacheTime,    \* empClient's last update time
  crFetches,    \* collateralRequirement().call() issued so far
  crWrites,     \* assignments to this.empCRRatio after construction
  st            \* per invocation: its position and its locals

vars == <<config, liquidationsCache, empCRRatio, cacheTime, crFetches, crWrites, st>>

\* ---------------------------------------------------------------- actions
\* A Liquidator constructed without a `config` argument, and no operation
\* invoked yet.
Init ==
  /\ config = createObjectFromDefaultProps(NoOverride)
  /\ liquidationsCache = <<>>
  /\ empCRRatio = NULL
  /\ cacheTime = 0
  /\ crFetches = 0
  /\ crWrites = 0
  /\ st = [p \in Procs |-> IdlePass]

\* The invocation of operation p begins and suspends on update()'s first
\* await.
Start(p) ==
  /\ st[p].pc = "idle"
  /\ st' = [st EXCEPT ![p] = Invoke(@, p)]
  /\ UNCHANGED <<empCRRatio, cacheTime, crFetches, crWrites>>
  /\ UNCHANGED <<config, liquidationsCache>>

\* await this.empClient.update() of update() settles: the cache has ingested
\* the chain's state at a later time, or the refresh failed.
EmpClientUpdated(p) ==
  /\ st[p].pc = "updCache"
  /\ \/ /\ cacheTime' = cacheTime + 1
        /\ st' = [st EXCEPT ![p] = [Refreshed(@, "empClient") EXCEPT !.pc = "updGas"]]
     \/ /\ st' = [st EXCEPT ![p] = Throw(@, "update")]
        /\ UNCHANGED cacheTime
  /\ UNCHANGED <<empCRRatio, crFetches, crWrites>>
  /\ UNCHANGED <<config, liquidationsCache>>

\* await this.gasEstimator.update() settles.
GasEstimatorUpdated(p) ==
  /\ st[p].pc = "updGas"
  /\ \/ st' = [st EXCEPT ![p] = [Refreshed(@, "gasEstimator") EXCEPT !.pc = "updPrice"]]
     \/ st' = [st EXCEPT ![p] = Throw(@, "update")]
  /\ UNCHANGED <<empCRRatio, cacheTime, crFetches, crWrites>>
  /\ UNCHANGED <<config, liquidationsCache>>

\* await this.priceFeed.update() settles; then the null check of empCRRatio.
PriceFeedUpdated(p) ==
  /\ st[p].pc = "updPrice"
  /\ \/ /\ empCRRatio = NULL
        /\ st' = [st EXCEPT ![p] = IssueFetch(Refreshed(@, "priceFeed"))]
        /\ crFetches' = crFetches + 1
     \/ /\ empCRRatio # NULL
        /\ \E n \in AfterUpdate(Refreshed(st[p], "priceFeed"), empCRRatio, cacheTime,
                             Snapshots(liquidationsCache)) :
             st' = [st EXCEPT ![p] = n]
        /\ UNCHANGED crFetches
     \/ /\ st' = [st EXCEPT ![p] = Throw(@, "update")]
        /\ UNCHANGED crFetches
  /\ UNCHANGED <<empCRRatio, cacheTime, crWrites>>
  /\ UNCHANGED <<config, liquidationsCache>>

\* await ...collateralRequirement().call() settles; the assignment.
CollateralRequirementReturned(p) ==
  /\ st[p].pc = "fetchCR"
  /\ \/ /\ empCRRatio' = collateralRequirement
        /\ crWrites' = crWrites + 1
        /\ \E n \in AfterUpdate(st[p], collateralRequirement, cacheTime,
                             Snapshots(liquidationsCache)) :
             st' = [st EXCEPT ![p] = n]
     \/ /\ st' = [st EXCEPT ![p] = Throw(@, "update")]
        /\ UNCHANGED <<empCRRatio, crWrites>>
  /\ UNCHANGED <<cacheTime, crFetches>>
  /\ UNCHANGED <<config, liquidationsCache>>

\* await liquidation.call / withdraw.call settles.
SimulateReturned(p) ==
  /\ st[p].pc = "sim"
  /\ \E env \in Envs :
       \/ /\ env \in ReadEnvs
          /\ st' = [st EXCEPT ![p] = SimulateSucceeded(Landed(@, "call"), env)]
       \/ /\ env \in BuildEnvs
          /\ st' = [st EXCEPT ![p] = SimulateFailed(Landed(@, "call"), cacheTime, env)]
  /\ UNCHANGED <<empCRRatio, cacheTime, crFetches, crWrites>>
  /\ UNCHANGED <<config, liquidationsCache>>

\* await liquidation.send / withdraw.send settles.
SendReturned(p) ==
  /\ st[p].pc = "send"
  /\ \E env \in Envs :
       \/ /\ env \in ReceiptEnvs
          /\ st' = [st EXCEPT ![p] = SendSucceeded(Landed(@, "send"), cacheTime, env)]
       \/ /\ env \in BuildEnvs
          /\ st' = [st EXCEPT ![p] = SendFailed(Landed(@, "send"), cacheTime, env)]
  /\ UNCHANGED <<empCRRatio, cacheTime, crFetches, crWrites>>
  /\ UNCHANGED <<config, liquidationsCache>>

\* await this.empClient.update() after the loop settles.
FinalUpdateReturned(p) ==
  /\ st[p].pc = "finalUpd"
  /\ \/ /\ cacheTime' = cacheTime + 1
        /\ st' = [st EXCEPT ![p] = Return(@)]
     \/ /\ st' = [st EXCEPT ![p] = Throw(@, "finalUpdate")]
        /\ UNCHANGED cacheTime
  /\ UNCHANGED <<empCRRatio, crFetches, crWrites>>
  /\ UNCHANGED <<config, liquidationsCache>>

Next ==
  \E p \in Procs :
    \/ Start(p)
    \/ EmpClientUpdated(p)
    \/ GasEstimatorUpdated(p)
    \/ PriceFeedUpdated(p)
    \/ CollateralRequirementReturned(p)
    \/ SimulateReturned(p)
    \/ SendReturned(p)
    \/ FinalUpdateReturned(p)

Spec == Init /\ [][Next]_vars

\* ------------------------------------------------------- the constructor
\* `new Liquidator(..., config)`: lines 13-81.
Construct(override) ==
  /\ config.state = "new"
  /\ config' = createObjectFromDefaultProps(override)
  /\ UNCHANGED <<liquidationsCache, empCRRatio, cacheTime, crFetches, crWrites, st>>

InitConfig ==
  /\ config = NotConstructed
  /\ liquidationsCache = <<>>
  /\ empCRRatio = NULL
  /\ cacheTime = 0
  /\ crFetches = 0
  /\ crWrites = 0
  /\ st = [p \in Procs |-> IdlePass]

NextConfig == \E override \in Overrides : Construct(override)

SpecConfig == InitConfig /\ [][NextConfig]_vars

\* ------------------------------------------------- calls one after another
\* A caller that awaits each call before the next calls operation p: every
\* earlier invocation has settled, and its locals are gone.
Call(p) ==
  /\ \A q \in Procs : st[q].pc \in {"idle", "done", "threw"}
  /\ st["liquidate"].call + st["withdraw"].call < MaxCalls
  /\ st' = [q \in Procs |->
              IF q = p
              THEN Invoke(st[p], p)
              ELSE [IdlePass EXCEPT !.call = st[q].call]]
  /\ UNCHANGED <<config, liquidationsCache, empCRRatio, cacheTime, crFetches, crWrites>>

NextRepeat ==
  \E p \in Procs :
    \/ Call(p)
    \/ EmpClientUpdated(p)
    \/ GasEstimatorUpdated(p)
    \/ PriceFeedUpdated(p)
    \/ CollateralRequirementReturned(p)
    \/ SimulateReturned(p)
    \/ SendReturned(p)
    \/ FinalUpdateReturned(p)

SpecRepeat == Init /\ [][NextRepeat]_vars

\* ------------------------------------- a withdrawal pass over a known cache
\* queryAndWithdrawRewards alone, on a Liquidator whose ratio is cached or
\* not, with the cache holding one given snapshot of the liquidations.
InitWithdraw ==
  /\ config = createObjectFromDefaultProps(NoOverride)
  /\ liquidationsCache \in CacheLiquidations
  /\ empCRRatio \in {NULL, collateralRequirement}
  /\ cacheTime = 0
  /\ crFetches = 0
  /\ crWrites = 0
  /\ st = [p \in Procs |-> IdlePass]

NextWithdraw ==
  \/ Start("withdraw")
  \/ EmpClientUpdated("withdraw")
  \/ GasEstimatorUpdated("withdraw")
  \/ PriceFeedUpdated("withdraw")
  \/ CollateralRequirementReturned("withdraw")
  \/ SimulateReturned("withdraw")
  \/ SendReturned("withdraw")
  \/ FinalUpdateReturned("withdraw")

SpecWithdraw == InitWithdraw /\ [][NextWithdraw]_vars

\* ----------------------------------------------------------------- claims
\* The loop of the pass has run to its end.
LoopCompleted(s) ==
  /\ Len(s.items) > 0
  /\ \/ s.pc \in {"finalUpd", "done"}
     \/ s.pc = "threw" /\ s.exc = "finalUpdate"

\* The outcome records the pass logged for item i.
OutcomeRecords(s, i) ==
  {k \in 1..Len(s.log) : s.log[k].item = i /\ s.log[k].msg \in OutcomeMsgs}

\* C1: in both operations the items are simulated in scan order, a simulate
\* failure or a submit failure on item i < N is followed by the iteration of
\* item i+1 (its simulation is issued, unless building its transaction
\* threw), and a loop that ran to its end has simulated all N items.
C1_FailureNeverStopsLoop ==
  \A p \in Procs :
    LET s == st[p]
        N == Len(s.items)
    IN  /\ s.simCalls = [k \in 1..Len(s.simCalls) |-> k]
        /\ \A i \in 1..N :
             (i < N /\ ItemState(s, i) \in {"SimulationFailed", "SubmissionFailed"})
               => \/ i + 1 \in Range(s.simCalls)
                  \/ s.pc = "threw" /\ s.exc = "build" /\ s.idx = i + 1
        /\ LoopCompleted(s) => Len(s.simCalls) = N

\* C1 witness: a liquidation pass over two positions has returned, the first
\* position's simulation failed and the second's submission failed.
C1_Witness ==
  \E p \in Procs :
    /\ st[p].op = "liquidate" /\ st[p].pc = "done" /\ Len(st[p].items) = 2
    /\ ItemState(st[p], 1) = "SimulationFailed"
    /\ ItemState(st[p], 2) = "SubmissionFailed"

\* C2: an invocation whose promise rejected was rejected by a refresh: by
\* update() (cache, gas estimator, price feed, ratio fetch) or by the refresh
\* of the cache after the loop; nothing thrown while an item is processed
\* leaves the pass.
C2_OnlyRefreshFailuresEscape ==
  \A p \in Procs :
    st[p].pc = "threw" => st[p].exc \in {"update", "finalUpdate"}

\* The ways an item can go through its states.
ValidTrails ==
  { <<"Scanned">>,
    <<"Scanned", "Simulating">>,
    <<"Scanned", "Simulating", "SimulationFailed">>,
    <<"Scanned", "Simulating", "Submitting">>,
    <<"Scanned", "Simulating", "Submitting", "SubmissionFailed">>,
    <<"Scanned", "Simulating", "Submitting", "Confirmed">> }

\* C3: every item goes Scanned -> Simulating -> {SimulationFailed |
\* Submitting} -> {SubmissionFailed | Confirmed} and no further; a send is
\* issued only for an item whose simulation was issued and did not fail, with
\* the transaction built for that item; no send is issued for an item whose
\* simulation failed.
C3_ItemStateMachine ==
  \A p \in Procs :
    LET s == st[p] IN
      /\ \A i \in 1..Len(s.items) :
           /\ s.trail[i] \in ValidTrails
           /\ ItemState(s, i) = "SimulationFailed" => i \notin Range(s.sendCalls)
      /\ \A i \in Range(s.sendCalls) :
           /\ i \in Range(s.simCalls)
           /\ "SimulationFailed" \notin Range(s.trail[i])
      /\ s.pc \in {"sim", "send"} =>
           /\ s.proposal.sponsor = s.items[s.idx].sponsor
           /\ s.proposal.method = IF s.op = "liquidate"
                                  THEN "createLiquidation"
                                  ELSE "withdrawLiquidation"

\* C3 witness: in one pass the first item's simulation failed and the second
\* item was simulated, submitted and confirmed.
C3_Witness ==
  \E p \in Procs :
    /\ Len(st[p].items) = 2
    /\ st[p].trail[1] = <<"Scanned", "Simulating", "SimulationFailed">>
    /\ st[p].trail[2] = <<"Scanned", "Simulating", "Submitting", "Confirmed">>

\* C4: a pass has at most one simulate or submit in flight, it is the one of
\* the item the loop is at, and every item before one whose simulation was
\* issued is in a terminal state.
C4_OneCallAtATime ==
  \A p \in Procs :
    LET s == st[p] IN
      /\ Cardinality(s.inFlight) <= 1
      /\ s.pc = "sim" => s.inFlight = {<<"call", s.idx>>}
      /\ s.pc = "send" => s.inFlight = {<<"send", s.idx>>}
      /\ s.pc \notin {"sim", "send"} => s.inFlight = {}
      /\ \A i \in Range(s.simCalls) :
           \A j \in 1..(i - 1) : ItemState(s, j) \in Terminal

\* C4 witness: the simulation of the second item is in flight after the first
\* item was confirmed.
C4_Witness ==
  \E p \in Procs :
    /\ st[p].pc = "sim" /\ st[p].idx = 2
    /\ ItemState(st[p], 1) = "Confirmed"
    /\ st[p].inFlight = {<<"call", 2>>}

\* C5: in a pass over at least one item the refresh of the cache after the
\* loop is issued at most once, it has been issued exactly when every item is
\* in a terminal state, and so never while an item is still to be processed.
C5_OneRefreshAfterLoop ==
  \A p \in Procs :
    LET s == st[p]
        allTerminal == \A i \in 1..Len(s.items) : ItemState(s, i) \in Terminal
    IN  /\ s.loopRefreshes <= 1
        /\ Len(s.items) > 0 => (s.loopRefreshes = 1 <=> allTerminal)
        /\ s.pc \in {"sim", "send"} => s.loopRefreshes = 0
        /\ LoopCompleted(s) => s.loopRefreshes = 1

\* C5 witness: a pass over two items, one skipped and one confirmed, has
\* returned after its one refresh.
C5_Witness ==
  \E p \in Procs :
    /\ st[p].pc = "done" /\ Len(st[p].items) = 2
    /\ st[p].loopRefreshes = 1
    /\ ItemState(st[p], 1) = "Confirmed"
    /\ ItemState(st[p], 2) = "SimulationFailed"

\* C6: collateralRequirement().call() is issued at most once.
C6_RatioFetchedAtMostOnce == crFetches <= 1

\* C7: this.empCRRatio is assigned at most once after construction: once set
\* it is never written again.
C7_RatioWrittenOnce == crWrites <= 1

\* C8: an item has exactly one outcome record once it is in a terminal state
\* and none before, so a pass whose loop ran to its end over N items has
\* logged exactly N outcome records.
C8_OneRecordPerOutcome ==
  \A p \in Procs :
    LET s == st[p]
        N == Len(s.items)
    IN  /\ \A i \in 1..N :
             Cardinality(OutcomeRecords(s, i)) =
               IF ItemState(s, i) \in Terminal THEN 1 ELSE 0
        /\ LoopCompleted(s) =>
             Cardinality({k \in 1..Len(s.log) : s.log[k].msg \in OutcomeMsgs}) = N

\* C8 witness: a withdrawal pass over two liquidations has returned, one
\* submission failed and one withdrawal succeeded.
C8_Witness ==
  \E p \in Procs :
    /\ st[p].op = "withdraw" /\ st[p].pc = "done" /\ Len(st[p].items) = 2
    /\ ItemState(st[p], 1) = "SubmissionFailed"
    /\ ItemState(st[p], 2) = "Confirmed"

\* A liquidation pass whose scan returned no position, and that returned.
EmptyScanPass(s) ==
  s.op = "liquidate" /\ s.pc = "done" /\ s.scans = 1 /\ Len(s.items) = 0

\* C9 as stated: a liquidation pass whose scan returns no position issues no
\* simulate and no submit and emits exactly one log record, of low severity.
C9_OneRecordOnEmptyScan ==
  \A p \in Procs :
    EmptyScanPass(st[p]) =>
      /\ st[p].simCalls = <<>> /\ st[p].sendCalls = <<>>
      /\ Len(st[p].log) = 1
      /\ st[p].log[1].sev = "debug"

\* C9 amended: a liquidation pass whose scan returns no position issues no
\* simulate and no submit and emits exactly three log records, all of low
\* severity: the two records that precede the scan and exactly one record for
\* the empty scan.
C9_ThreeDebugRecordsOnEmptyScan ==
  \A p \in Procs :
    EmptyScanPass(st[p]) =>
      /\ st[p].simCalls = <<>> /\ st[p].sendCalls = <<>>
      /\ Len(st[p].log) = 3
      /\ \A k \in 1..3 : st[p].log[k].sev = "debug"
      /\ {k \in 1..3 : st[p].log[k].msg = "No undercollateralized position"} = {3}

\* C9 witness: a liquidation pass has returned on an empty scan.
C9_Witness == \E p \in Procs : EmptyScanPass(st[p])

\* C10: the outcome record of an item whose simulation failed is of error
\* severity in queryAndLiquidate and of debug severity in
\* queryAndWithdrawRewards, and the loop has gone on: to the next item, or to
\* its end after the last one.
C10_SimulationFailureSeverity ==
  \A p \in Procs :
    LET s == st[p] IN
      \A i \in 1..Len(s.items) :
        ItemState(s, i) = "SimulationFailed" =>
          /\ \A k \in OutcomeRecords(s, i) :
               s.log[k].sev = IF s.op = "liquidate" THEN "error" ELSE "debug"
          /\ OutcomeRecords(s, i) # {}
          /\ IF i < Len(s.items) THEN s.idx > i ELSE s.loopRefreshes = 1

\* C10 witness: in a withdrawal pass the first candidate's simulation failed
\* and the second candidate's simulation is in flight.
C10_Witness ==
  \E p \in Procs :
    /\ st[p].op = "withdraw" /\ st[p].pc = "sim" /\ st[p].idx = 2
    /\ ItemState(st[p], 1) = "SimulationFailed"

\* C11: queryAndLiquidate computes the boundary and scans the cache only when
\* the price the feed returned is present and positive; a pass the feed gave
\* no such price logs exactly one record, the warning, and returns without a
\* scan, a simulate, a submit or a refresh of the cache after the loop.
C11_ScanOnlyOnPositivePrice ==
  LET s == st["liquidate"] IN
    /\ s.scans > 0 => s.price > 0
    /\ (s.pc \in {"done", "threw"} /\ s.exc # "update" /\ s.price <= 0) =>
         /\ s.scans = 0 /\ s.simCalls = <<>> /\ s.sendCalls = <<>>
         /\ s.loopRefreshes = 0
         /\ Len(s.log) = 1 /\ s.log[1].sev = "warn"

\* C12: whatever price the feed returned, the scaledPrice of the pass is a
\* scaled integer, the truncated product
\* floor(price * (SCALE - crThreshold) / SCALE), and it is the one the scan
\* of the cache is made with.
C12_ScaledPriceTruncates ==
  LET s == st["liquidate"] IN
    s.price # NULL =>
      /\ IsIntegerString(s.scaledPrice)
      /\ toBN(s.scaledPrice) = (s.price * (SCALE - crThresholdScaled)) \div SCALE
      /\ s.scans = 1

\* C13: every createLiquidation transaction of a pass carries as
\* maxCollateralPerToken the truncated product
\* floor(scaledPrice * empCRRatio / SCALE) of the pass's scaledPrice and the
\* cached ratio, the same value for every position of the pass, and every
\* simulated transaction is one of them.
C13_MaxCollateralPerToken ==
  LET s == st["liquidate"]
      expected == (toBN(s.scaledPrice) * empCRRatio) \div SCALE
  IN  /\ \A k \in 1..Len(s.proposed) :
           s.proposed[k].maxCollateralPerToken = expected
      /\ s.op = "liquidate" => Len(s.proposed) = Len(s.simCalls)
      /\ s.pc \in {"sim", "send"} => s.proposal.maxCollateralPerToken = expected

\* C13 witness: at price 1.00 the pass built the transactions of two
\* positions, both with floor(0.98 * 1.20) = 1.17 at SCALE, where the product
\* is not a multiple of SCALE.
C13_Witness ==
  LET s == st["liquidate"] IN
    /\ s.price = 100 /\ toBN(s.scaledPrice) = 98
    /\ Len(s.proposed) = 2
    /\ s.proposed[1].maxCollateralPerToken = 117
    /\ s.proposed[2].maxCollateralPerToken = 117
    /\ (98 * 120) % SCALE # 0

\* C14: the constructor succeeds exactly when every key of the override has
\* a value its predicate accepts: crThreshold in [0, 1), liquidationDeadline
\* and liquidationMinPrice at least 0, txnGasLimit in [6000000, 15000000); a
\* constructed Liquidator has the override's value for the keys of the
\* override and the defaults (0.02, 300, 0, 9000000) for the others.
C14_ConfigValidation ==
  config.state # "new" =>
    LET o == config.override
        has(k) == k \in DOMAIN o
        accepted ==
          /\ has("crThreshold") => 0 <= o.crThreshold /\ o.crThreshold < SCALE
          /\ has("liquidationDeadline") => o.liquidationDeadline >= 0
          /\ has("liquidationMinPrice") => o.liquidationMinPrice >= 0
          /\ has("txnGasLimit") => 6000000 <= o.txnGasLimit /\ o.txnGasLimit < 15000000
    IN  /\ config.state = "constructed" <=> accepted
        /\ config.state = "ConfigInvalid" <=> ~accepted
        /\ config.state = "constructed" =>
             /\ config.props.crThreshold =
                  IF has("crThreshold") THEN o.crThreshold ELSE 2
             /\ config.props.liquidationDeadline =
                  IF has("liquidationDeadline") THEN o.liquidationDeadline ELSE 300
             /\ config.props.liquidationMinPrice =
                  IF has("liquidationMinPrice") THEN o.liquidationMinPrice ELSE 0
             /\ config.props.txnGasLimit =
                  IF has("txnGasLimit") THEN o.txnGasLimit ELSE 9000000

\* C14 witness: an override of txnGasLimit alone, at the accepted lower end
\* 6000000, constructed a Liquidator with the three other defaults.
C14_Witness ==
  /\ config.state = "constructed"
  /\ DOMAIN config.override = {"txnGasLimit"}
  /\ config.props.txnGasLimit = 6000000
  /\ config.props.crThreshold = 2
  /\ config.props.liquidationDeadline = 300
  /\ config.props.liquidationMinPrice = 0

\* The ids of the liquidations of items q[i], i in the sequence of indices q.
Ids(s, q) == {s.items[q[i]].id : i \in 1..Len(q)}

\* C15: in a withdrawal pass over a cache holding snapshot c, once the cache
\* was queried, the candidates are exactly c's expired and disputed
\* liquidations whose liquidator is this.account, each once; a call or a send
\* is issued only for a candidate, with the withdrawal built for it, and for
\* none twice; no liquidation of another liquidator is among them; and a loop
\* that ran to its end has attempted every candidate.
C15_OwnExpiredOrDisputed ==
  \A c \in Snapshots(liquidationsCache) :
    LET s == st["withdraw"]
        own == {n \in 1..MaxLiquidations :
                  /\ c[n].liquidator = account
                  /\ c[n].status \in {"expired", "disputed"}}
        foreign == {n \in 1..MaxLiquidations : c[n].liquidator # account}
    IN  s.scans = 1 =>
          /\ {s.items[i].id : i \in 1..Len(s.items)} = own
          /\ Len(s.items) = Cardinality(own)
          /\ \A i \in 1..Len(s.items) : s.items[i].liquidator = account
          /\ Ids(s, s.simCalls) \subseteq own
          /\ Ids(s, s.sendCalls) \subseteq own
          /\ Ids(s, s.simCalls) \cap foreign = {}
          /\ Ids(s, s.sendCalls) \cap foreign = {}
          /\ Cardinality(Range(s.simCalls)) = Len(s.simCalls)
          /\ Cardinality(Range(s.sendCalls)) = Len(s.sendCalls)
          /\ s.pc \in {"sim", "send"} => s.proposal.id = s.items[s.idx].id
          /\ \A i \in 1..(s.idx - 1) : i \in Range(s.simCalls)
          /\ LoopCompleted(s) => Ids(s, s.simCalls) = own

\* C15 witness: the cache holds an expired liquidation of another liquidator
\* and a disputed one of this.account, and the pass has returned after
\* withdrawing from the second alone.
C15_Witness ==
  /\ liquidationsCache =
       [n \in 1..MaxLiquidations |->
          IF n = 1 THEN [liquidator |-> "other", status |-> "expired"]
          ELSE [liquidator |-> account, status |-> "disputed"]]
  /\ st["withdraw"].pc = "done"
  /\ Len(st["withdraw"].items) = 1
  /\ st["withdraw"].items[1].id = 2
  /\ st["withdraw"].sendCalls = <<1>>
  /\ ItemState(st["withdraw"], 1) = "Confirmed"

\* C16: whatever calls came before, an invocation that has not yet queried
\* the cache has nothing to work on and nothing in flight; what it simulates
\* and submits are items of the one scan it made itself; and the calls leave
\* the fields the constructor assigned as they were, this.empCRRatio alone
\* going from null to the contract's collateral requirement.
C16_PassesAreIndependent ==
  /\ \A p \in Procs :
       LET s == st[p] IN
         /\ s.pc \in {"updCache", "updGas", "updPrice", "fetchCR"} =>
              /\ s.scans = 0 /\ s.items = <<>> /\ s.trail = <<>>
              /\ s.simCalls = <<>> /\ s.sendCalls = <<>> /\ s.proposed = <<>>
              /\ s.inFlight = {} /\ s.proposal = NoProposal
              /\ s.idx = 0 /\ s.loopRefreshes = 0
         /\ s.scans <= 1
         /\ Range(s.simCalls) \subseteq 1..Len(s.items)
         /\ Range(s.sendCalls) \subseteq Range(s.simCalls)
         /\ \A k \in 1..Len(s.log) : s.log[k].item \in 0..Len(s.items)
  /\ config = createObjectFromDefaultProps(NoOverride)
  /\ empCRRatio = IF crWrites = 0 THEN NULL ELSE collateralRequirement

\* C16 witness: the third call, a queryAndLiquidate after two earlier calls
\* of it, is simulating its second position with the first one confirmed,
\* on the ratio an earlier call cached.
C16_Witness ==
  LET s == st["liquidate"] IN
    /\ s.call = 3 /\ s.pc = "sim" /\ s.idx = 2
    /\ ItemState(s, 1) = "Confirmed"
    /\ crFetches = 1 /\ crWrites = 1 /\ empCRRatio = collateralRequirement

\* No element occurs twice in the sequence q.
NoRepeat(q) == \A j, k \in 1..Len(q) : j < k => q[j] # q[k]

\* C17: in one pass a call is issued at most once and a send at most once
\* for every item, whatever the call or the send resulted in: an item whose
\* simulation failed has had its one call and no send, an item whose
\* submission failed its one call and its one send, and neither is in
\* flight again.
C17_NoRetry ==
  \A p \in Procs :
    LET s == st[p] IN
      /\ NoRepeat(s.simCalls)
      /\ NoRepeat(s.sendCalls)
      /\ \A i \in 1..Len(s.items) :
           /\ ItemState(s, i) = "SimulationFailed" =>
                /\ i \in Range(s.simCalls) /\ i \notin Range(s.sendCalls)
                /\ <<"call", i>> \notin s.inFlight
           /\ ItemState(s, i) = "SubmissionFailed" =>
                /\ i \in Range(s.simCalls) /\ i \in Range(s.sendCalls)
                /\ <<"send", i>> \notin s.inFlight

\* C17 witness: a withdrawal pass has returned after the submission of its
\* first candidate failed and the simulation of its second failed, with two
\* calls and one send issued in all.
C17_Witness ==
  LET s == st["withdraw"] IN
    /\ s.pc = "done" /\ Len(s.items) = 2
    /\ ItemState(s, 1) = "SubmissionFailed"
    /\ ItemState(s, 2) = "SimulationFailed"
    /\ s.simCalls = <<1, 2>> /\ s.sendCalls = <<1>>

\* C18: whenever a liquidation pass issues the simulation of a position, the
\* transaction it simulates has as deadline the cache's last update time of
\* that moment plus liquidationDeadline, which is not before that time; so
\* too when another invocation has refreshed the cache since the previous
\* position.
C18_DeadlineFromCurrentCacheTime ==
  [][ Len(st'["liquidate"].simCalls) > Len(st["liquidate"].simCalls) =>
        /\ st'["liquidate"].pc = "sim"
        /\ st'["liquidate"].proposal.deadline = cacheTime' + liquidationDeadline
        /\ st'["liquidate"].proposal.deadline >= cacheTime'
        /\ Last(st'["liquidate"].proposed).later =>
             st'["liquidate"].proposal.deadline > st["liquidate"].proposal.deadline ]_vars

\* C18 witness: the second position's simulation is in flight with a later
\* deadline than the first position's had: queryAndWithdrawRewards refreshed
\* the cache between the two.
C18_Witness ==
  LET s == st["liquidate"] IN
    /\ s.pc = "sim" /\ s.idx = 2 /\ Len(s.proposed) = 2
    /\ s.proposed[2].later
    /\ s.proposal.deadline = cacheTime + liquidationDeadline

\* C19: an invocation that is over, returned or rejected, is suspended on
\* nothing and does nothing more; so every item whose simulation was issued
\* must by then have reached its one terminal outcome: confirmed, simulation
\* failed or submission failed.
C19_BegunItemsReachOutcome ==
  \A p \in Procs :
    LET s == st[p] IN
      s.pc \in {"done", "threw"} =>
        \A i \in Range(s.simCalls) :
          /\ ItemState(s, i) \in Terminal
          /\ Cardinality(OutcomeRecords(s, i)) = 1

\* The collaborators update() refreshes, in the order it awaits them.
RefreshOrder == <<"empClient", "gasEstimator", "priceFeed">>

\* C20: the steps of a pass's refresh resolve in the order cache, gas
\* estimator, price feed, and the fetch of the ratio is awaited after these
\* three and before anything else; the pass queries the cache, computes
\* maxCollateralPerToken, simulates and submits only after all of them have
\* resolved, with this.empCRRatio not null; and a pass whose refresh failed
\* has done none of these.
C20_RefreshBeforeScan ==
  \A p \in Procs :
    LET s == st[p]
        acted == \/ s.scans > 0
                 \/ s.simCalls # <<>>
                 \/ s.sendCalls # <<>>
                 \/ s.maxCollateralPerToken # NULL
    IN  /\ Len(s.refreshed) <= 3
        /\ s.refreshed = SubSeq(RefreshOrder, 1, Len(s.refreshed))
        /\ acted => /\ s.refreshed = RefreshOrder
                    /\ empCRRatio # NULL
                    /\ s.pc # "fetchCR"
                    /\ s.exc # "update"
        /\ s.pc = "fetchCR" => s.refreshed = RefreshOrder
        /\ (s.pc = "threw" /\ s.exc = "update") => ~acted
        /\ Len(s.refreshed) < 3 =>
             s.pc \in {"idle", "updCache", "updGas", "updPrice", "threw"}

\* C20 witness: queryAndLiquidate, having awaited the three updates and the
\* fetch of the ratio, is simulating a position while the refresh of
\* queryAndWithdrawRewards has failed at the price feed.
C20_Witness ==
  /\ st["liquidate"].refreshed = RefreshOrder
  /\ st["liquidate"].pc = "sim"
  /\ crFetches = 1 /\ empCRRatio = collateralRequirement
  /\ st["liquidate"].maxCollateralPerToken # NULL
  /\ st["withdraw"].pc = "threw" /\ st["withdraw"].exc = "update"
  /\ Len(st["withdraw"].refreshed) = 2

====
